---- MODULE Spec2Model ----
(***************************************************************************)
(* A model of pysensors' SSPOR estimator (reconstruction/_sspor.py): the   *)
(* sensor-count and mode-count bookkeeping, the fit orchestration and the  *)
(* checks each public method makes before it computes.                     *)
(*                                                                         *)
(* Matrices are modelled by their shape; the ranking is modelled exactly,  *)
(* as a sequence of feature indices.  The basis and the ranking strategy   *)
(* are collaborators that live outside reconstruction/_sspor.py.           *)
(***************************************************************************)
EXTENDS Integers, Sequences, FiniteSets, TLC

\* ---------------------------------------------------------------- bounds
MaxFeatures == 3
MaxSamples == 2
MaxModes == 2
MaxSeed == 1
MaxChoice == 3

\* Python's None, for the integer-valued attributes and arguments.
None == 0 - 1

Min(a, b) == IF a <= b THEN a ELSE b

RECURSIVE Fact(_)
Fact(n) == IF n <= 1 THEN 1 ELSE n * Fact(n - 1)

\* ------------------------------------------------------------ input sets
\* A data array x of shape (samples, features); NoX is x = None.
NoX == [samples |-> 0, features |-> 0]
Data == [samples : (MaxSamples - 1)..MaxSamples, features : (MaxFeatures - 1)..MaxFeatures]
XArgs == Data \cup {NoX}

\* An argument that should be an integer: isInt is isinstance(v, INT_DTYPES),
\* val its numeric value (a float 2.0 is [isInt |-> FALSE, val |-> 2]).
IntArg(v) == [isInt |-> TRUE, val |-> v]
FloatArg(v) == [isInt |-> FALSE, val |-> v]
CountArgs == {IntArg(v) : v \in (0 - 1)..(MaxFeatures + 1)} \cup {FloatArg(1)}
ModeArgs == {IntArg(v) : v \in 0..(MaxSamples + 1)} \cup {FloatArg(1)}

SeedArgs == {None} \cup 0..MaxSeed
\* The seed an unseeded generator draws from the system's entropy.
Entropy == 0..MaxSeed
\* What the ranking strategy may choose (see get_sensors).
Choices == 0..MaxChoice

\* The families of ranking strategy the estimator tells apart.  CCQR differs
\* from QR only in a warning of _validate_n_sensors, so QR stands for both.
OptimizerKinds == {"QR", "TPGR"}

\* ------------------------------------------------------------ the state
VARIABLES
    optimizer,        \* self.optimizer: the family of the ranking strategy
    basis,            \* self.basis: the basis object
    n_sensors,        \* self.n_sensors
    n_basis_modes,    \* self.n_basis_modes
    attrs,            \* the attributes the instance has (hasattr)
    basis_matrix_,    \* self.basis_matrix_
    singular_values,  \* self.singular_values
    ranked_sensors_,  \* self.ranked_sensors_
    fit_called,       \* history: fit has been entered at least once
    last              \* observation: the last call, how it ended, what it
                      \* invoked and the branch it computed with

vars == <<optimizer, basis, n_sensors, n_basis_modes, attrs, basis_matrix_,
          singular_values, ranked_sensors_, fit_called, last>>

\* The instance as one value, for the operators that compute a method's effect.
Self == [optimizer |-> optimizer, basis |-> basis, n_sensors |-> n_sensors,
         n_basis_modes |-> n_basis_modes, attrs |-> attrs,
         basis_matrix_ |-> basis_matrix_, singular_values |-> singular_values,
         ranked_sensors_ |-> ranked_sensors_]

NoMatrix == [rows |-> 0, cols |-> 0]
NoVector == [len |-> 0]

\* A method's outcome: the instance after it, how it ended, the collaborator
\* calls it made in order, the warnings it emitted, the branch it computed
\* with and what it returned.
Outcome(self, result, trace, warns, path, ret) ==
    [self |-> self, result |-> result, trace |-> trace, warns |-> warns,
     path |-> path, ret |-> ret]

Raise(self, error, trace) == Outcome(self, error, trace, {}, "", <<>>)

\* --------------------------------------------------------- collaborators
\* sklearn's check_is_fitted(obj, attr): the attribute exists on the object.
check_is_fitted(self, attr) == attr \in self.attrs

\* utils.validate_input(x, sensors): x is an array whose last dimension
\* matches the number of sensors, when sensors are given.
validate_input(x, n_expected) ==
    /\ x # NoX
    /\ n_expected # None => x.features = n_expected

\* basis.fit(x): the basis learns at most n_basis_modes modes, and no more
\* than there are samples, over the features of x.
Basis_fit(b, x) ==
    [b EXCEPT !.fitted = TRUE, !.rows = x.features,
              !.cols = Min(b.n_basis_modes, x.samples)]

\* basis.matrix_representation(n_basis_modes): the request must not exceed
\* the basis's mode count.
CanRepresent(b, n) == n = None \/ n <= b.n_basis_modes

matrix_representation(b, n) ==
    [rows |-> b.rows, cols |-> IF n = None THEN b.cols ELSE Min(n, b.cols)]

\* The c-th rearrangement of seq (c read as a Lehmer code): a bijection on
\* the entries for every c.
RECURSIVE PermuteBy(_, _)
PermuteBy(seq, c) ==
    IF Len(seq) = 0 THEN <<>>
    ELSE LET i == (c % Len(seq)) + 1
             rest == [j \in 1..(Len(seq) - 1) |-> IF j < i THEN seq[j] ELSE seq[j + 1]]
         IN <<seq[i]>> \o PermuteBy(rest, c \div Len(seq))

\* optimizer.fit(basis_matrix).get_sensors(): a permutation of [0, n_features),
\* which one being the strategy's choice.
get_sensors(rows, choice) == PermuteBy([i \in 1..rows |-> i - 1], choice)

\* ------------------------------------------------------------------- fit
\* x @ basis_matrix_ is defined when x is an array with as many columns as
\* the basis matrix has rows.
CanProject(x, m) == x # NoX /\ x.features = m.rows

\* rng.permutation(tail) for rng = default_rng(seed): fixed by the seed, and
\* anything (entropy) when the seed is None.
rng_choice(tail, seed, entropy) ==
    [i \in 1..Len(tail) |-> tail[((IF seed = None THEN entropy ELSE seed) % Len(tail)) + 1]]

rng_permutation(tail, seed, entropy) ==
    PermuteBy(tail, IF seed = None THEN entropy ELSE seed)

shuffle_tail_whole(ranked, cols, seed, entropy) == rng_permutation(ranked, seed, entropy)

\* ranked[n_basis_modes:] = rng.permutation(ranked[n_basis_modes:])
shuffle_tail(ranked, cols, seed, entropy) ==
    LET k == Min(cols, Len(ranked))
    IN SubSeq(ranked, 1, k) \o rng_permutation(SubSeq(ranked, k + 1, Len(ranked)), seed, entropy)

_validate_n_sensors_unchecked(self) ==
    Outcome(IF self.n_sensors = None
            THEN [self EXCEPT !.n_sensors = self.basis_matrix_.rows] ELSE self,
            "ok", <<>>, {}, "", <<>>)

_validate_n_sensors_default(self) ==
    Outcome([self EXCEPT !.n_sensors = self.basis_matrix_.rows], "ok", <<>>, {}, "", <<>>)

_validate_n_sensors(self) ==
    IF ~check_is_fitted(self, "basis_matrix_") THEN Raise(self, "NotFittedError", <<>>)
    ELSE LET max_sensors == self.basis_matrix_.rows
             s1 == IF self.n_sensors = None
                   THEN [self EXCEPT !.n_sensors = max_sensors] ELSE self
         IN IF self.n_sensors # None /\ self.n_sensors > max_sensors
            THEN Raise(self, "ValueError", <<>>)
            ELSE Outcome(s1, "ok", <<>>,
                         IF s1.optimizer = "CCQR" /\ s1.n_sensors > s1.basis_matrix_.cols
                         THEN {"ccqr_sensors_exceed_samples"} ELSE {},
                         "", <<>>)

fit_unguarded(self, x, prefit_basis, seed, choice, entropy) ==
    IF ~prefit_basis /\ ~validate_input(x, None) THEN Raise(self, "ValueError", <<>>)
    ELSE
    LET s1 == IF prefit_basis THEN self
              ELSE [self EXCEPT !.basis = Basis_fit(self.basis, x)]
        t1 == IF prefit_basis THEN <<>> ELSE <<"basis.fit">>
    IN
    IF ~CanRepresent(s1.basis, s1.n_basis_modes) THEN Raise(s1, "ValueError", t1)
    ELSE
    LET s2 == [s1 EXCEPT !.basis_matrix_ = matrix_representation(s1.basis, s1.n_basis_modes),
                         !.attrs = @ \cup {"basis_matrix_"}]
        v == _validate_n_sensors(s2)
        s3 == v.self
    IN
    IF v.result # "ok" THEN Raise(s3, v.result, t1)
    ELSE IF ~CanProject(x, s3.basis_matrix_) THEN Raise(s3, "OperandError", t1)
    ELSE
    LET sv == [len |-> s3.basis_matrix_.cols]
        pivots == get_sensors(s3.basis_matrix_.rows, choice)
        ranked == shuffle_tail(pivots, s3.basis_matrix_.cols, seed, entropy)
        s4 == [s3 EXCEPT !.singular_values = sv,
                         !.ranked_sensors_ = ranked,
                         !.attrs = @ \cup {"singular_values", "ranked_sensors_"}]
    IN Outcome(s4, "ok", t1 \o <<"optimizer.fit", "rng.permutation">>, v.warns, "", <<>>)

fit(self, x, prefit_basis, seed, choice, entropy) ==
    IF prefit_basis /\ ~self.basis.fitted THEN Raise(self, "NotFittedError", <<>>)
    ELSE IF ~prefit_basis /\ ~validate_input(x, None) THEN Raise(self, "ValueError", <<>>)
    ELSE
    LET s1 == IF prefit_basis THEN self
              ELSE [self EXCEPT !.basis = Basis_fit(self.basis, x)]
        t1 == IF prefit_basis THEN <<>> ELSE <<"basis.fit">>
    IN
    IF ~CanRepresent(s1.basis, s1.n_basis_modes) THEN Raise(s1, "ValueError", t1)
    ELSE
    LET s2 == [s1 EXCEPT !.basis_matrix_ = matrix_representation(s1.basis, s1.n_basis_modes),
                         !.attrs = @ \cup {"basis_matrix_"}]
        v == _validate_n_sensors(s2)
        s3 == v.self
    IN
    IF v.result # "ok" THEN Raise(s3, v.result, t1)
    ELSE IF ~CanProject(x, s3.basis_matrix_) THEN Raise(s3, "OperandError", t1)
    ELSE
    LET sv == [len |-> s3.basis_matrix_.cols]
        pivots == get_sensors(s3.basis_matrix_.rows, choice)
        ranked == shuffle_tail(pivots, s3.basis_matrix_.cols, seed, entropy)
        s4 == [s3 EXCEPT !.singular_values = sv,
                         !.ranked_sensors_ = ranked,
                         !.attrs = @ \cup {"singular_values", "ranked_sensors_"}]
    IN Outcome(s4, "ok", t1 \o <<"optimizer.fit", "rng.permutation">>, v.warns, "", <<>>)

\* --------------------------------------------------- sensor-count setting
set_number_of_sensors_unbounded(self, k) ==
    IF ~check_is_fitted(self, "ranked_sensors_") THEN Raise(self, "NotFittedError", <<>>)
    ELSE IF ~k.isInt \/ k.val <= 0 THEN Raise(self, "ValueError", <<>>)
    ELSE Outcome([self EXCEPT !.n_sensors = k.val], "ok", <<>>, {}, "", <<>>)

set_number_of_sensors_zero(self, k) ==
    IF ~check_is_fitted(self, "ranked_sensors_") THEN Raise(self, "NotFittedError", <<>>)
    ELSE IF ~k.isInt \/ k.val < 0 \/ k.val > Len(self.ranked_sensors_)
    THEN Raise(self, "ValueError", <<>>)
    ELSE Outcome([self EXCEPT !.n_sensors = k.val], "ok", <<>>, {}, "", <<>>)

set_number_of_sensors_rerank(self, k) ==
    IF ~check_is_fitted(self, "ranked_sensors_") THEN Raise(self, "NotFittedError", <<>>)
    ELSE IF ~k.isInt \/ k.val <= 0 \/ k.val > Len(self.ranked_sensors_)
    THEN Raise(self, "ValueError", <<>>)
    ELSE Outcome([self EXCEPT !.n_sensors = k.val,
                              !.ranked_sensors_ = shuffle_tail(@, 0, k.val, 0)],
                 "ok", <<"rng.permutation">>, {}, "", <<>>)

set_number_of_sensors(self, k) ==
    IF ~check_is_fitted(self, "ranked_sensors_") THEN Raise(self, "NotFittedError", <<>>)
    ELSE IF ~k.isInt THEN Raise(self, "ValueError", <<>>)
    ELSE IF k.val <= 0 THEN Raise(self, "ValueError", <<>>)
    ELSE IF k.val > Len(self.ranked_sensors_) THEN Raise(self, "ValueError", <<>>)
    ELSE Outcome([self EXCEPT !.n_sensors = k.val], "ok", <<>>, {}, "", <<>>)

set_n_sensors(self, k) == set_number_of_sensors(self, k)

\* ----------------------------------------------------- mode-count update
NeedsBasisRefit_active(self, k) ==
    ~(self.basis.fitted /\ k.val <= self.n_basis_modes)

\* The branch update_n_basis_modes takes for a valid mode count.
NeedsBasisRefit(self, k) ==
    ~(self.basis.fitted /\ k.val <= self.basis.n_basis_modes)

update_n_basis_modes_eager(self, k, x, choice, entropy) ==
    LET s == [self EXCEPT !.n_basis_modes = k.val]
    IN IF ~k.isInt \/ k.val <= 0 THEN Raise(self, "ValueError", <<>>)
       ELSE IF ~NeedsBasisRefit(self, k) THEN fit(s, x, TRUE, None, choice, entropy)
       ELSE IF x = NoX \/ k.val > x.samples THEN Raise(s, "ValueError", <<>>)
       ELSE fit([s EXCEPT !.basis.n_basis_modes = k.val], x, FALSE, None, choice, entropy)

update_n_basis_modes_clamping(self, k, x, choice, entropy) ==
    LET o == IF ~k.isInt \/ k.val <= 0 THEN Raise(self, "ValueError", <<>>)
             ELSE IF ~NeedsBasisRefit(self, k)
             THEN fit([self EXCEPT !.n_basis_modes = k.val], x, TRUE, None, choice, entropy)
             ELSE IF x = NoX \/ k.val > x.samples THEN Raise(self, "ValueError", <<>>)
             ELSE fit([self EXCEPT !.n_basis_modes = k.val, !.basis.n_basis_modes = k.val],
                      x, FALSE, None, choice, entropy)
    IN IF o.result = "ok" THEN [o EXCEPT !.self.n_sensors = Min(@, k.val)] ELSE o

update_n_basis_modes(self, k, x, choice, entropy) ==
    IF ~k.isInt \/ k.val <= 0 THEN Raise(self, "ValueError", <<>>)
    ELSE IF ~NeedsBasisRefit(self, k)
    THEN fit([self EXCEPT !.n_basis_modes = k.val], x, TRUE, None, choice, entropy)
    ELSE IF x = NoX THEN Raise(self, "ValueError", <<>>)
    ELSE IF k.val > x.samples THEN Raise(self, "ValueError", <<>>)
    ELSE fit([self EXCEPT !.n_basis_modes = k.val, !.basis.n_basis_modes = k.val],
             x, FALSE, None, choice, entropy)

\* update_n_basis_modes gets as far as calling fit.
UpdateCallsFit(self, k, x) ==
    /\ k.isInt /\ k.val > 0
    /\ ~NeedsBasisRefit(self, k) \/ (x # NoX /\ k.val <= x.samples)

\* ------------------------------------------------------------ the getters
\* ranked_sensors_[: n_sensors], a slice: it stops at the end of the array.
Prefix(seq, n) == SubSeq(seq, 1, Min(n, Len(seq)))

get_selected_sensors_truncating(self) ==
    IF ~check_is_fitted(self, "ranked_sensors_") THEN Raise(self, "NotFittedError", <<>>)
    ELSE Outcome([self EXCEPT !.ranked_sensors_ = Prefix(@, self.n_sensors)],
                 "ok", <<>>, {}, "", Prefix(self.ranked_sensors_, self.n_sensors))

get_selected_sensors(self) ==
    IF ~check_is_fitted(self, "ranked_sensors_") THEN Raise(self, "NotFittedError", <<>>)
    ELSE Outcome(self, "ok", <<>>, {}, "", Prefix(self.ranked_sensors_, self.n_sensors))

get_all_sensors_unchecked(self) ==
    IF "ranked_sensors_" \notin self.attrs THEN Raise(self, "AttributeError", <<>>)
    ELSE Outcome(self, "ok", <<>>, {}, "", self.ranked_sensors_)

get_all_sensors(self) ==
    IF ~check_is_fitted(self, "ranked_sensors_") THEN Raise(self, "NotFittedError", <<>>)
    ELSE Outcome(self, "ok", <<>>, {}, "", self.ranked_sensors_)

\* ------------------------------------------------------------ prediction
\* basis_matrix_[sensors, :] is defined when every index is a row of the matrix.
CanIndex(m, sensors) == \A i \in 1..Len(sensors) : sensors[i] < m.rows

\* A prior argument left out of the call.
Missing == [kind |-> "missing", ndim |-> 0, len |-> 0]

\* The prior resolution shared by predict, std and the energy landscapes:
\* the length of the computed prior, or the error raised instead.
ResolvePrior_lenient(self, prior) ==
    IF prior.kind = "decreasing"
    THEN IF "singular_values" \in self.attrs
         THEN [result |-> "ok", len |-> self.singular_values.len]
         ELSE [result |-> "AttributeError", len |-> 0]
    ELSE IF prior.kind \in {"ndarray", "list"}
    THEN IF prior.ndim # 1 THEN [result |-> "ValueError", len |-> 0]
         ELSE [result |-> "ok", len |-> prior.len]
    ELSE [result |-> "ValueError", len |-> 0]

ResolvePrior(self, prior) ==
    IF prior.kind = "decreasing"
    THEN IF "singular_values" \in self.attrs
         THEN [result |-> "ok", len |-> self.singular_values.len]
         ELSE [result |-> "AttributeError", len |-> 0]
    ELSE IF prior.kind = "ndarray"
    THEN IF prior.ndim # 1 THEN [result |-> "ValueError", len |-> 0]
         ELSE IF "basis_matrix_" \notin self.attrs THEN [result |-> "AttributeError", len |-> 0]
         ELSE IF prior.len # self.basis_matrix_.cols THEN [result |-> "ValueError", len |-> 0]
         ELSE [result |-> "ok", len |-> prior.len]
    ELSE [result |-> "ValueError", len |-> 0]

NoiseWarning(noise_given) == IF noise_given THEN {} ELSE {"noise_defaulted"}

\* diag(1 / prior**2) + S.T @ S / noise**2 and the solve that follows: the
\* two square matrices must agree in size, or the diagonal one broadcast from
\* a single entry.
CanCompose(p, m) == p = m.cols \/ p = 1

_regularized_reconstruction(self, p, warns) ==
    LET sel == get_selected_sensors(self)
    IN IF sel.result # "ok" THEN Raise(self, sel.result, <<>>)
       ELSE IF ~CanIndex(self.basis_matrix_, sel.ret) THEN Raise(self, "IndexError", <<>>)
       ELSE IF ~CanCompose(p, self.basis_matrix_) THEN Raise(self, "ValueError", <<>>)
       ELSE Outcome(self, "ok", <<>>, warns, "regularized", sel.ret)

\* scipy's solve wants the restricted matrix square.
_square_predict(self, sensors, warns) ==
    IF ~CanIndex(self.basis_matrix_, sensors) THEN Raise(self, "IndexError", <<>>)
    ELSE IF Len(sensors) # self.basis_matrix_.cols THEN Raise(self, "ValueError", <<>>)
    ELSE Outcome(self, "ok", <<>>, warns, "square", sensors)

_rectangular_predict(self, sensors, warns) ==
    IF ~CanIndex(self.basis_matrix_, sensors) THEN Raise(self, "IndexError", <<>>)
    ELSE Outcome(self, "ok", <<>>, warns, "rectangular", sensors)

predict_requested_modes(self, x, method, prior, noise_given) ==
    IF ~check_is_fitted(self, "ranked_sensors_") THEN Raise(self, "NotFittedError", <<>>)
    ELSE IF ~validate_input(x, Len(Prefix(self.ranked_sensors_, self.n_sensors)))
    THEN Raise(self, "ValueError", <<>>)
    ELSE IF method = "None"
    THEN LET r == ResolvePrior(self, prior)
         IN IF r.result # "ok" THEN Raise(self, r.result, <<>>)
            ELSE _regularized_reconstruction(self, r.len, NoiseWarning(noise_given))
    ELSE IF method = "unregularized"
    THEN IF self.n_sensors = self.basis.n_basis_modes
         THEN _square_predict(self, Prefix(self.ranked_sensors_, self.n_sensors), {})
         ELSE _rectangular_predict(self, Prefix(self.ranked_sensors_, self.n_sensors), {})
    ELSE Raise(self, "NotImplementedError", <<>>)

predict_fallback(self, x, method, prior, noise_given) ==
    IF ~check_is_fitted(self, "ranked_sensors_") THEN Raise(self, "NotFittedError", <<>>)
    ELSE IF ~validate_input(x, Len(Prefix(self.ranked_sensors_, self.n_sensors)))
    THEN Raise(self, "ValueError", <<>>)
    ELSE IF method = "None"
    THEN LET r == ResolvePrior(self, prior)
         IN IF r.result # "ok" THEN Raise(self, r.result, <<>>)
            ELSE _regularized_reconstruction(self, r.len, NoiseWarning(noise_given))
    ELSE IF self.n_sensors = self.basis_matrix_.cols
    THEN _square_predict(self, Prefix(self.ranked_sensors_, self.n_sensors), {})
    ELSE _rectangular_predict(self, Prefix(self.ranked_sensors_, self.n_sensors), {})

predict(self, x, method, prior, noise_given) ==
    IF ~check_is_fitted(self, "ranked_sensors_") THEN Raise(self, "NotFittedError", <<>>)
    ELSE IF ~validate_input(x, Len(Prefix(self.ranked_sensors_, self.n_sensors)))
    THEN Raise(self, "ValueError", <<>>)
    ELSE
    LET w1 == IF self.n_sensors > self.basis_matrix_.rows /\ method = "unregularized"
              THEN {"n_sensors_exceeds_basis_dimension"} ELSE {}
    IN
    IF method = "None"
    THEN LET r == ResolvePrior(self, prior)
         IN IF r.result # "ok" THEN Raise(self, r.result, <<>>)
            ELSE _regularized_reconstruction(self, r.len, w1 \cup NoiseWarning(noise_given))
    ELSE IF method = "unregularized"
    THEN IF self.n_sensors = self.basis_matrix_.cols
         THEN _square_predict(self, Prefix(self.ranked_sensors_, self.n_sensors), w1)
         ELSE _rectangular_predict(self, Prefix(self.ranked_sensors_, self.n_sensors), w1)
    ELSE Raise(self, "NotImplementedError", <<>>)

\* -------------------------------------------------- the square solve, in values
\* Matrices as sequences of rows, vectors as sequences, in exact integer
\* arithmetic; a sample is one row of x.
RECURSIVE Dot(_, _, _)
Dot(u, v, n) == IF n = 0 THEN 0 ELSE u[n] * v[n] + Dot(u, v, n - 1)

\* np.dot(B, c)
MatVec(B, c) == [i \in 1..Len(B) |-> Dot(B[i], c, Len(c))]

\* basis_matrix_[sensors, :], the sensors being 0-based row indices.
RowsAt(B, sensors) == [i \in 1..Len(sensors) |-> B[sensors[i] + 1]]

\* x[sensors]
EntriesAt(x, sensors) == [i \in 1..Len(sensors) |-> x[sensors[i] + 1]]

Minor(A, j) ==
    [i \in 1..(Len(A) - 1) |->
        [k \in 1..(Len(A) - 1) |-> IF k < j THEN A[i + 1][k] ELSE A[i + 1][k + 1]]]

RECURSIVE Det(_)
RECURSIVE DetAlong(_, _)
DetAlong(A, j) ==
    IF j = 0 THEN 0
    ELSE (IF j % 2 = 1 THEN 1 ELSE 0 - 1) * A[1][j] * Det(Minor(A, j)) + DetAlong(A, j - 1)

Det(A) == IF Len(A) = 0 THEN 1 ELSE IF Len(A) = 1 THEN A[1][1] ELSE DetAlong(A, Len(A))

\* The coefficient vectors the model represents.
Coefficients(m) == [1..m -> {0 - 1, 0, 1}]

\* scipy.linalg.solve(A, b) for a square A: the c with A c = b; <<>> when A
\* is singular (LinAlgError) or the solution is not a represented vector.
solve(A, b) ==
    IF Len(A) = 0 \/ Len(A[1]) # Len(A) \/ Det(A) = 0 THEN <<>>
    ELSE IF \E c \in Coefficients(Len(A)) : MatVec(A, c) = b
    THEN CHOOSE c \in Coefficients(Len(A)) : MatVec(A, c) = b
    ELSE <<>>

_square_predict_leading(B, sensors, x) ==
    LET c == solve(SubSeq(B, 1, Len(sensors)), x)
    IN IF c = <<>> THEN <<>> ELSE MatVec(B, c)

\* _square_predict(x, sensors) for one sample, in values:
\* np.dot(basis_matrix_, solve(basis_matrix_[sensors, :], x))
_square_predict_values(B, sensors, x) ==
    LET c == solve(RowsAt(B, sensors), x)
    IN IF c = <<>> THEN <<>> ELSE MatVec(B, c)

RECURSIVE Pow(_, _)
Pow(b, e) == IF e = 0 THEN 1 ELSE b * Pow(b, e - 1)

\* Basis matrices of a given shape: row i holds the powers 0..cols-1 of the
\* node a * i, so the rows are all alike for a = 0 and pairwise independent
\* otherwise.
BasisMatrices(rows, cols) ==
    {[i \in 1..rows |-> [j \in 1..cols |-> Pow(a * i, j - 1)]] : a \in Choices}

\* ---------------------------------------------------------------- scoring
\* a - b for arrays of shapes (s, m) and (s, n).
CanSubtract(m, n) == m = n \/ m = 1 \/ n = 1

score_unchecked(self, x) ==
    IF ~check_is_fitted(self, "ranked_sensors_") THEN Raise(self, "NotFittedError", <<>>)
    ELSE
    LET sensors == get_selected_sensors(self).ret
        pred == predict(self, [x EXCEPT !.features = Len(sensors)], "unregularized",
                        [kind |-> "decreasing", ndim |-> 0, len |-> 0], FALSE)
    IN IF pred.result # "ok" THEN pred
       ELSE IF ~CanSubtract(self.basis_matrix_.rows, x.features)
       THEN Raise(self, "ValueError", <<>>)
       ELSE pred

score(self, x) ==
    IF ~check_is_fitted(self, "ranked_sensors_") THEN Raise(self, "NotFittedError", <<>>)
    ELSE IF Len(self.ranked_sensors_) # x.features THEN Raise(self, "ValueError", <<>>)
    ELSE
    LET sensors == get_selected_sensors(self).ret
        pred == predict(self, [x EXCEPT !.features = Len(sensors)], "unregularized",
                        [kind |-> "decreasing", ndim |-> 0, len |-> 0], FALSE)
    IN IF pred.result # "ok" THEN pred
       ELSE IF ~CanSubtract(self.basis_matrix_.rows, x.features)
       THEN Raise(self, "ValueError", <<>>)
       ELSE pred

\* One entry of the sweep: the branch taken for n_sensors sensors.
SweepEntry_current(self, n) ==
    IF self.n_sensors = self.basis_matrix_.cols
    THEN _square_predict(self, Prefix(self.ranked_sensors_, n), {})
    ELSE _rectangular_predict(self, Prefix(self.ranked_sensors_, n), {})

SweepEntry(self, n) ==
    IF n = self.basis_matrix_.cols
    THEN _square_predict(self, Prefix(self.ranked_sensors_, n), {})
    ELSE _rectangular_predict(self, Prefix(self.ranked_sensors_, n), {})

\* The sensor counts the sweep visits: sensor_range, or its default.
SweepRange(self, sensor_range) ==
    IF sensor_range = <<>>
    THEN [i \in 1..Min(self.n_sensors, self.basis_matrix_.rows) |-> i]
    ELSE sensor_range

\* reconstruction_error(x_test, sensor_range); sensor_range = None is <<>>.
\* It returns one entry per sensor count, here the branch that computed it.
reconstruction_error(self, x_test, sensor_range) ==
    IF ~check_is_fitted(self, "ranked_sensors_") THEN Raise(self, "NotFittedError", <<>>)
    ELSE IF ~validate_input(x_test, Len(self.ranked_sensors_)) THEN Raise(self, "ValueError", <<>>)
    ELSE
    LET rows == self.basis_matrix_.rows
        range == SweepRange(self, sensor_range)
        warns == IF range[Len(range)] > rows THEN {"more_sensors_than_basis_dimension"} ELSE {}
        entries == [i \in 1..Len(range) |-> SweepEntry(self, range[i])]
    IN IF entries[1].result # "ok" THEN Raise(self, entries[1].result, <<>>)
       ELSE IF ~CanSubtract(rows, x_test.features) THEN Raise(self, "ValueError", <<>>)
       ELSE IF \E i \in 1..Len(range) : entries[i].result # "ok"
       THEN Raise(self, entries[CHOOSE i \in 1..Len(range) : entries[i].result # "ok" /\
                                  \A j \in 1..(i - 1) : entries[j].result = "ok"].result, <<>>)
       ELSE Outcome(self, "ok", <<>>, warns, "sweep", [i \in 1..Len(range) |-> entries[i].path])

\* ------------------------------------------------------------ uncertainty
\* def std(self, prior, noise=None): prior has no default, so a call that
\* leaves it out fails to bind its arguments before the body runs.
std(self, prior, noise_given) ==
    IF prior = Missing THEN Raise(self, "TypeError", <<>>)
    ELSE IF ~check_is_fitted(self, "basis_matrix_") THEN Raise(self, "NotFittedError", <<>>)
    ELSE
    LET r == ResolvePrior(self, prior)
    IN IF r.result # "ok" THEN Raise(self, r.result, <<>>)
       ELSE LET o == _regularized_reconstruction(self, r.len, NoiseWarning(noise_given))
            IN IF o.result # "ok" THEN o ELSE [o EXCEPT !.path = "std"]

\* ------------------------------------------------------- energy landscapes
\* basis_matrix_ @ diag(prior)
CanScale(m, p) == m.cols = p

one_pt_energy_landscape_untyped(self, prior, noise_given) ==
    LET r == ResolvePrior(self, prior)
    IN IF r.result # "ok" THEN Raise(self, r.result, <<>>)
       ELSE IF "basis_matrix_" \notin self.attrs THEN Raise(self, "AttributeError", <<>>)
       ELSE IF ~CanScale(self.basis_matrix_, r.len) THEN Raise(self, "ValueError", <<>>)
       ELSE Outcome(self, "ok", <<>>, NoiseWarning(noise_given), "one_pt", <<>>)

one_pt_energy_landscape(self, prior, noise_given) ==
    IF self.optimizer # "TPGR" THEN Raise(self, "TypeError", <<>>)
    ELSE IF ~check_is_fitted(self, "optimizer") THEN Raise(self, "NotFittedError", <<>>)
    ELSE
    LET r == ResolvePrior(self, prior)
    IN IF r.result # "ok" THEN Raise(self, r.result, <<>>)
       ELSE IF "basis_matrix_" \notin self.attrs THEN Raise(self, "AttributeError", <<>>)
       ELSE IF ~CanScale(self.basis_matrix_, r.len) THEN Raise(self, "ValueError", <<>>)
       ELSE Outcome(self, "ok", <<>>, NoiseWarning(noise_given), "one_pt", <<>>)

two_pt_energy_landscape(self, selected_sensors, prior, noise_given) ==
    IF self.optimizer # "TPGR" THEN Raise(self, "TypeError", <<>>)
    ELSE IF ~check_is_fitted(self, "optimizer") THEN Raise(self, "NotFittedError", <<>>)
    ELSE
    LET r == ResolvePrior(self, prior)
    IN IF r.result # "ok" THEN Raise(self, r.result, <<>>)
       ELSE IF "basis_matrix_" \notin self.attrs THEN Raise(self, "AttributeError", <<>>)
       ELSE IF ~CanScale(self.basis_matrix_, r.len) THEN Raise(self, "ValueError", <<>>)
       ELSE IF ~CanIndex(self.basis_matrix_, selected_sensors) THEN Raise(self, "IndexError", <<>>)
       ELSE Outcome(self, "ok", <<>>, NoiseWarning(noise_given), "two_pt", selected_sensors)

\* ------------------------------------------------------------- behaviour
\* The instance right after SSPOR(basis, optimizer, n_sensors), the basis
\* not yet fit.
Init ==
    /\ optimizer \in OptimizerKinds
    /\ basis = [fitted |-> FALSE, n_basis_modes |-> MaxModes, rows |-> 0, cols |-> 0]
    /\ n_sensors \in {None} \cup 1..MaxFeatures
    /\ n_basis_modes = None
    /\ attrs = {"optimizer"}
    /\ basis_matrix_ = NoMatrix
    /\ singular_values = NoVector
    /\ ranked_sensors_ = <<>>
    /\ fit_called = FALSE
    /\ last = [op |-> "__init__", result |-> "ok", trace |-> <<>>, path |-> ""]

\* The call leaves the instance as o.self and is recorded in last.
Becomes(o, op) ==
    /\ optimizer' = o.self.optimizer
    /\ basis' = o.self.basis
    /\ n_sensors' = o.self.n_sensors
    /\ n_basis_modes' = o.self.n_basis_modes
    /\ attrs' = o.self.attrs
    /\ basis_matrix_' = o.self.basis_matrix_
    /\ singular_values' = o.self.singular_values
    /\ ranked_sensors_' = o.self.ranked_sensors_
    /\ last' = [op |-> op, result |-> o.result, trace |-> o.trace, path |-> o.path]

\* The strategy and the generator choose only in a call that reaches them.
Reaches(o) == IF o.result = "ok" THEN Choices ELSE {0}
Draws(o, seed) == IF o.result = "ok" /\ seed = None THEN Entropy ELSE {0}

Fit ==
    \E x \in XArgs, prefit_basis \in BOOLEAN, seed \in SeedArgs :
      \E choice \in Reaches(fit(Self, x, prefit_basis, seed, 0, 0)),
         entropy \in Draws(fit(Self, x, prefit_basis, seed, 0, 0), seed) :
        /\ Becomes(fit(Self, x, prefit_basis, seed, choice, entropy), "fit")
        /\ fit_called' = TRUE

SetNumberOfSensors ==
    \E k \in CountArgs :
        /\ Becomes(set_number_of_sensors(Self, k), "set_number_of_sensors")
        /\ UNCHANGED fit_called

SetNSensors ==
    \E k \in CountArgs :
        /\ Becomes(set_n_sensors(Self, k), "set_number_of_sensors")
        /\ UNCHANGED fit_called

UpdateNBasisModes ==
    \E k \in ModeArgs, x \in XArgs :
      \E choice \in Reaches(update_n_basis_modes(Self, k, x, 0, 0)),
         entropy \in Draws(update_n_basis_modes(Self, k, x, 0, 0), None) :
        /\ Becomes(update_n_basis_modes(Self, k, x, choice, entropy),
                   "update_n_basis_modes")
        /\ fit_called' = (fit_called \/ UpdateCallsFit(Self, k, x))

Next ==
    \/ Fit
    \/ SetNumberOfSensors
    \/ SetNSensors
    \/ UpdateNBasisModes

\* ------------------------------------------------- the read-only methods
Methods == {"None", "unregularized", "cubic"}
Decreasing == [kind |-> "decreasing", ndim |-> 0, len |-> 0]
PriorArgs ==
    {Decreasing, [kind |-> "str", ndim |-> 0, len |-> 0], [kind |-> "list", ndim |-> 1, len |-> 1],
     [kind |-> "ndarray", ndim |-> 2, len |-> 1]}
    \cup {[kind |-> "ndarray", ndim |-> 1, len |-> n] : n \in 1..MaxModes}
\* Measurements or test data: only the number of columns matters to a reader.
Measurements == {[samples |-> 1, features |-> f] : f \in 1..MaxFeatures}
RangeArgs == {<<>>} \cup {<<n>> : n \in 1..(MaxFeatures + 1)}
                   \cup {<<MaxFeatures + 1, 1>>, <<1, MaxFeatures>>}
SelectedArgs == {<<0>>, <<0, MaxFeatures - 1>>}

\* A read-only call: it is recorded, and whatever it leaves the instance as.
Predict ==
    \E x \in Measurements \cup {NoX}, method \in Methods :
      \E prior \in (IF method = "None" THEN PriorArgs ELSE {Decreasing}),
         noise_given \in (IF method = "None" THEN BOOLEAN ELSE {FALSE}) :
        /\ Becomes(predict(Self, x, method, prior, noise_given), "predict")
        /\ UNCHANGED fit_called

Score ==
    \E x \in Measurements :
        /\ Becomes(score(Self, x), "score")
        /\ UNCHANGED fit_called

ReconstructionError ==
    \E x_test \in Measurements \cup {NoX}, sensor_range \in RangeArgs :
        /\ Becomes(reconstruction_error(Self, x_test, sensor_range), "reconstruction_error")
        /\ UNCHANGED fit_called

GetSelectedSensors ==
    /\ Becomes(get_selected_sensors(Self), "get_selected_sensors")
    /\ UNCHANGED fit_called

GetAllSensors ==
    /\ Becomes(get_all_sensors(Self), "get_all_sensors")
    /\ UNCHANGED fit_called

Std ==
    \E prior \in PriorArgs \cup {Missing}, noise_given \in BOOLEAN :
        /\ Becomes(std(Self, prior, noise_given), "std")
        /\ UNCHANGED fit_called

OnePtEnergyLandscape ==
    \E prior \in PriorArgs, noise_given \in BOOLEAN :
        /\ Becomes(one_pt_energy_landscape(Self, prior, noise_given), "one_pt_energy_landscape")
        /\ UNCHANGED fit_called

TwoPtEnergyLandscape ==
    \E selected_sensors \in SelectedArgs, prior \in PriorArgs, noise_given \in BOOLEAN :
        /\ Becomes(two_pt_energy_landscape(Self, selected_sensors, prior, noise_given),
                   "two_pt_energy_landscape")
        /\ UNCHANGED fit_called

\* The mutating calls with the strategy's and the generator's choices fixed:
\* the read-only methods look at shapes, counts and indices, which these reach.
FitFixed ==
    \E x \in XArgs, prefit_basis \in BOOLEAN :
        /\ Becomes(fit(Self, x, prefit_basis, 0, 0, 0), "fit")
        /\ fit_called' = TRUE

UpdateFixed ==
    \E k \in ModeArgs, x \in XArgs :
        /\ Becomes(update_n_basis_modes(Self, k, x, 0, 0), "update_n_basis_modes")
        /\ fit_called' = (fit_called \/ UpdateCallsFit(Self, k, x))

NextReads ==
    \/ FitFixed
    \/ SetNumberOfSensors
    \/ UpdateFixed
    \/ Predict
    \/ Score
    \/ ReconstructionError
    \/ GetSelectedSensors
    \/ GetAllSensors
    \/ Std
    \/ OnePtEnergyLandscape
    \/ TwoPtEnergyLandscape

SpecReads == Init /\ [][NextReads]_vars

Spec == Init /\ [][Next]_vars

\* SSPOR(basis, optimizer): the instance constructed without n_sensors.
InitUnset == Init /\ n_sensors = None

\* Such an instance under every mutating method.
SpecConstructed == InitUnset /\ [][Next]_vars

\* Such an instance on which the sensor count is never set by the caller.
NextDefaulted ==
    \/ Fit
    \/ UpdateNBasisModes

SpecDefaulted == InitUnset /\ [][NextDefaulted]_vars

\* ================================================================ claims
Count(trace, e) == Cardinality({i \in 1..Len(trace) : trace[i] = e})

IsPermutation(seq, n) ==
    /\ Len(seq) = n
    /\ \A v \in 0..(n - 1) : Cardinality({i \in 1..Len(seq) : seq[i] = v}) = 1

IsPrefixOf(s, t) == Len(s) <= Len(t) /\ \A i \in 1..Len(s) : s[i] = t[i]

Fitted == "ranked_sensors_" \in attrs

\* C1: after every successful fit or update_n_basis_modes, for every seed,
\* get_all_sensors() has length n_features and holds each index of
\* [0, n_features) exactly once.
C1_AllSensorsPermutation ==
    (last.op \in {"fit", "update_n_basis_modes"} /\ last.result = "ok")
        => /\ get_all_sensors(Self).result = "ok"
           /\ IsPermutation(get_all_sensors(Self).ret, basis_matrix_.rows)

\* A successful fit that left at least two entries beyond the mode count, in
\* another order than the identity.
C1_Witness ==
    /\ last.op = "fit" /\ last.result = "ok"
    /\ Len(ranked_sensors_) >= basis_matrix_.cols + 2
    /\ ranked_sensors_ # [i \in 1..Len(ranked_sensors_) |-> i - 1]

\* C2: in every fitted state, whatever calls led to it, get_selected_sensors()
\* has length exactly n_sensors and equals the first n_sensors entries of
\* get_all_sensors(), in order.
C2_SelectedIsPrefix ==
    Fitted =>
        LET sel == get_selected_sensors(Self).ret
            all == get_all_sensors(Self).ret
        IN /\ Len(sel) = n_sensors
           /\ n_sensors <= Len(all)
           /\ \A i \in 1..n_sensors : sel[i] = all[i]

\* A fitted model after a failing update_n_basis_modes, selecting a proper prefix.
C2_Witness ==
    /\ Fitted
    /\ last.op = "update_n_basis_modes" /\ last.result # "ok"
    /\ n_sensors < Len(ranked_sensors_)

\* The arguments set_number_of_sensors must reject in the current state.
InvalidCount(k) == ~k.isInt \/ k.val <= 0 \/ k.val > Len(ranked_sensors_)

\* C3: on a fitted model set_number_of_sensors(k) fails with a value error for
\* every k that is zero, negative, no integer or greater than the number of
\* ranked sensors, and n_sensors keeps its value.
C3_InvalidCountRejected ==
    Fitted =>
        \A k \in CountArgs :
            InvalidCount(k) =>
                /\ set_number_of_sensors(Self, k).result = "ValueError"
                /\ set_number_of_sensors(Self, k).self.n_sensors = n_sensors
                /\ set_n_sensors(Self, k).result = "ValueError"
                /\ set_n_sensors(Self, k).self.n_sensors = n_sensors

\* A fitted model whose last call was a rejected set_number_of_sensors.
C3_Witness ==
    /\ Fitted
    /\ last.op = "set_number_of_sensors" /\ last.result = "ValueError"

\* C4: an accepted set_number_of_sensors(k) changes n_sensors and nothing else
\* and calls neither the basis nor the ranking strategy; so for k1 <= k2 the
\* sensors selected with k1 are a prefix of those selected with k2, in
\* whichever order the two calls are made.
C4_SetChangesOnlyCount ==
    Fitted =>
        \A k1 \in CountArgs :
            LET o1 == set_number_of_sensors(Self, k1)
            IN o1.result = "ok" =>
                /\ o1.self.n_sensors = k1.val
                /\ o1.self.ranked_sensors_ = ranked_sensors_
                /\ o1.self.basis_matrix_ = basis_matrix_
                /\ o1.self.singular_values = singular_values
                /\ o1.self.n_basis_modes = n_basis_modes
                /\ o1.self.basis = basis
                /\ o1.self.attrs = attrs
                /\ o1.trace = <<>>
                /\ set_n_sensors(Self, k1) = o1
                /\ \A k2 \in CountArgs :
                     (set_number_of_sensors(Self, k2).result = "ok" /\ k1.val <= k2.val) =>
                        LET small_last == set_number_of_sensors(
                                              set_number_of_sensors(Self, k2).self, k1).self
                            large_last == set_number_of_sensors(o1.self, k2).self
                        IN IsPrefixOf(get_selected_sensors(small_last).ret,
                                      get_selected_sensors(large_last).ret)

\* A fitted model whose last call was an accepted set_number_of_sensors that
\* selects fewer sensors than are ranked.
C4_Witness ==
    /\ Fitted
    /\ last.op = "set_number_of_sensors" /\ last.result = "ok"
    /\ n_sensors < Len(ranked_sensors_)
    /\ Len(ranked_sensors_) >= basis_matrix_.cols + 2

\* C5: while fit has never been called, predict, score, reconstruction_error,
\* get_selected_sensors, get_all_sensors and set_number_of_sensors fail with
\* the not-fitted signal for every argument and leave the instance as it was.
C5_UnfitReadsNotFitted ==
    ~fit_called =>
        /\ \A x \in Measurements \cup {NoX}, method \in Methods, prior \in PriorArgs,
              noise_given \in BOOLEAN :
               /\ predict(Self, x, method, prior, noise_given).result = "NotFittedError"
               /\ predict(Self, x, method, prior, noise_given).self = Self
        /\ \A x \in Measurements :
               /\ score(Self, x).result = "NotFittedError"
               /\ score(Self, x).self = Self
        /\ \A x \in Measurements \cup {NoX}, sensor_range \in RangeArgs :
               /\ reconstruction_error(Self, x, sensor_range).result = "NotFittedError"
               /\ reconstruction_error(Self, x, sensor_range).self = Self
        /\ get_selected_sensors(Self).result = "NotFittedError"
        /\ get_selected_sensors(Self).self = Self
        /\ get_all_sensors(Self).result = "NotFittedError"
        /\ get_all_sensors(Self).self = Self
        /\ \A k \in CountArgs :
               /\ set_number_of_sensors(Self, k).result = "NotFittedError"
               /\ set_number_of_sensors(Self, k).self = Self

\* A model never fit whose last call, a predict, failed with the not-fitted signal.
C5_Witness ==
    /\ ~fit_called
    /\ last.op = "predict" /\ last.result = "NotFittedError"

\* C6: while no ranking has been produced, std and (with a TPGR strategy) the
\* one-point and two-point energy landscapes fail with the not-fitted signal
\* and with no other error.
C6_NoRankingNotFitted ==
    (~Fitted /\ last.op \in {"std", "one_pt_energy_landscape", "two_pt_energy_landscape"}
             /\ (last.op = "std" \/ optimizer = "TPGR"))
        => last.result = "NotFittedError"

\* The basis is fit and k is a positive integer within its mode count.
WithinFittedBasis(k) == basis.fitted /\ k.isInt /\ k.val > 0 /\ k.val <= basis.n_basis_modes

C8_DataOptionalWhenTruncating ==
    \A k \in ModeArgs :
        (WithinFittedBasis(k) /\ (n_sensors = None \/ n_sensors <= basis.rows)) =>
            LET o == update_n_basis_modes(Self, k, NoX, 0, 0)
            IN /\ o.result = "ok"
               /\ "ranked_sensors_" \in o.self.attrs
               /\ o.self.n_basis_modes = k.val

\* The branch of update_n_basis_modes that refits the basis.
RefitNeeded(k) == ~basis.fitted \/ k.val > basis.n_basis_modes

\* The calls update_n_basis_modes must refuse before doing anything.
RefusedUpdate(k, x) ==
    \/ ~k.isInt
    \/ k.val <= 0
    \/ RefitNeeded(k) /\ (x = NoX \/ k.val > x.samples)

C9_Refusals ==
    \A k \in ModeArgs, x \in XArgs :
        RefusedUpdate(k, x) =>
            LET o == update_n_basis_modes(Self, k, x, 0, 0)
            IN o.result = "ValueError" /\ o.self = Self /\ o.trace = <<>>

Bundle == <<basis_matrix_, singular_values, ranked_sensors_>>

\* C11: a fit or update_n_basis_modes call on a fitted model either succeeds,
\* or fails and leaves the basis matrix, the singular values and the ranking
\* exactly as they were before the call.
C11_AtomicRefit ==
    [][(/\ Fitted
        /\ last'.op \in {"fit", "update_n_basis_modes"}
        /\ last'.result # "ok") => UNCHANGED Bundle]_vars

\* C12: in every reachable state in which n_sensors is set and a basis matrix
\* is held, 0 < n_sensors <= n_features, the row count of that basis matrix.
C12_SensorCountInRange ==
    (n_sensors # None /\ "basis_matrix_" \in attrs)
        => (0 < n_sensors /\ n_sensors <= basis_matrix_.rows)

\* C13: for a model constructed without n_sensors on which the count is never
\* set by the caller, after every successful fit n_sensors equals the number
\* of features of the data of that fit.
C13_DefaultFollowsData ==
    (last.op = "fit" /\ last.result = "ok") => n_sensors = basis_matrix_.rows

\* The instance SSPOR(basis, optimizer, n_sensors=k) with this instance's
\* strategy and an unfit basis.
Fresh(k) ==
    [optimizer |-> optimizer,
     basis |-> [fitted |-> FALSE, n_basis_modes |-> MaxModes, rows |-> 0, cols |-> 0],
     n_sensors |-> k, n_basis_modes |-> None, attrs |-> {"optimizer"},
     basis_matrix_ |-> NoMatrix, singular_values |-> NoVector, ranked_sensors_ |-> <<>>]

\* C14: for the same basis, strategy, data and seed and every k with
\* 0 < k <= n_features, SSPOR(n_sensors=k).fit(x) and
\* SSPOR().fit(x).set_number_of_sensors(k) end with the same n_sensors, the
\* same ranking and the same selected sensors.
C14_ConstructorEquivalence ==
    ~fit_called =>
        \A x \in Data, k \in 1..(MaxFeatures + 1), seed \in 0..MaxSeed, choice \in Choices,
           e1 \in Entropy, e2 \in Entropy :
            k <= x.features =>
                LET given == fit(Fresh(k), x, FALSE, seed, choice, e1)
                    unset == fit(Fresh(None), x, FALSE, seed, choice, e2)
                    later == set_number_of_sensors(unset.self, IntArg(k))
                IN /\ Fresh(None) = Self
                   /\ given.result = "ok" /\ unset.result = "ok" /\ later.result = "ok"
                   /\ given.self.n_sensors = k /\ later.self.n_sensors = k
                   /\ given.self.ranked_sensors_ = later.self.ranked_sensors_
                   /\ get_selected_sensors(given.self).ret = get_selected_sensors(later.self).ret
                   /\ given.self = later.self

\* A model constructed without n_sensors, fit and then given a smaller count,
\* in the very state that constructing with that count and fitting ends in.
C14_Witness ==
    /\ last.op = "set_number_of_sensors" /\ last.result = "ok"
    /\ n_sensors < Len(ranked_sensors_)
    /\ \E x \in Data, seed \in 0..MaxSeed, choice \in Choices :
          fit(Fresh(n_sensors), x, FALSE, seed, choice, 0).self = Self

\* Two outcomes differ at most in the order of the ranking's tail, the part
\* after the first n_basis_modes entries.
SameUpToTail(o1, o2) ==
    /\ o1.result = o2.result
    /\ [o1.self EXCEPT !.ranked_sensors_ = <<>>] = [o2.self EXCEPT !.ranked_sensors_ = <<>>]
    /\ Len(o1.self.ranked_sensors_) = Len(o2.self.ranked_sensors_)
    /\ \A i \in 1..Min(o1.self.basis_matrix_.cols, Len(o1.self.ranked_sensors_)) :
          o1.self.ranked_sensors_[i] = o2.self.ranked_sensors_[i]

\* C15: after a seeded fit, two runs of the same next operation with the same
\* data, strategy choice and integer seed end in the same state, whatever the
\* generator would draw unseeded; and two runs differ in nothing but the
\* order of the ranking's tail.
C15_SeedDeterminism ==
    (last.op = "fit" /\ last.result = "ok") =>
        \A x \in XArgs, choice \in Choices, e1 \in Entropy, e2 \in Entropy :
            /\ \A prefit_basis \in BOOLEAN, seed \in 0..MaxSeed :
                  fit(Self, x, prefit_basis, seed, choice, e1)
                      = fit(Self, x, prefit_basis, seed, choice, e2)
            /\ \A prefit_basis \in BOOLEAN :
                  SameUpToTail(fit(Self, x, prefit_basis, None, choice, e1),
                               fit(Self, x, prefit_basis, None, choice, e2))
            /\ \A k \in ModeArgs :
                  update_n_basis_modes(Self, k, x, choice, e1)
                      = update_n_basis_modes(Self, k, x, choice, e2)

\* C16: the energy landscapes fail with a type error whenever the ranking
\* strategy is not TPGR, fitted or not and whatever the prior, the noise and
\* the selected sensors, and change no state; with TPGR on a fitted model
\* the type check passes.
C16_EnergyNeedsTPGR ==
    \A prior \in PriorArgs, noise_given \in BOOLEAN, selected_sensors \in SelectedArgs :
        LET one == one_pt_energy_landscape(Self, prior, noise_given)
            two == two_pt_energy_landscape(Self, selected_sensors, prior, noise_given)
        IN /\ optimizer # "TPGR" =>
                /\ one.result = "TypeError" /\ one.self = Self
                /\ two.result = "TypeError" /\ two.self = Self
           /\ (optimizer = "TPGR" /\ Fitted) =>
                /\ one.result # "TypeError" /\ one.self = Self
                /\ two.result # "TypeError" /\ two.self = Self

\* A fitted model with a QR strategy whose two-point landscape was refused.
C16_Witness ==
    /\ Fitted /\ optimizer = "QR"
    /\ last.op = "two_pt_energy_landscape" /\ last.result = "TypeError"

\* Measurements with one column per selected sensor.
WellShaped(x) == validate_input(x, Len(Prefix(ranked_sensors_, n_sensors)))

\* C17: on a fitted model, predict with method 'unregularized' is the square
\* solve exactly when n_sensors equals the number of columns of the basis
\* matrix and the least-squares solve otherwise; predict with the default
\* method computes with the regularized reconstruction and with neither.
C17_UnregularizedPath ==
    Fitted =>
        \A x \in Measurements :
            WellShaped(x) =>
                LET sensors == get_selected_sensors(Self).ret
                    u == predict(Self, x, "unregularized", Decreasing, FALSE)
                    expected == IF n_sensors = basis_matrix_.cols
                                THEN _square_predict(Self, sensors, u.warns)
                                ELSE _rectangular_predict(Self, sensors, u.warns)
                IN /\ u = expected
                   /\ u.result = "ok" =>
                        u.path = (IF n_sensors = basis_matrix_.cols
                                  THEN "square" ELSE "rectangular")
                   /\ \A prior \in PriorArgs, noise_given \in BOOLEAN :
                        LET d == predict(Self, x, "None", prior, noise_given)
                        IN /\ d.path \notin {"square", "rectangular"}
                           /\ d.result = "ok" => d.path = "regularized"

\* A square solve by predict after an update_n_basis_modes truncated the
\* basis, with fewer sensors selected than are ranked.
C17_Witness ==
    /\ last.op = "predict" /\ last.result = "ok" /\ last.path = "square"
    /\ n_basis_modes # None /\ n_basis_modes < basis.n_basis_modes
    /\ n_sensors < Len(ranked_sensors_)

\* C18: on a fitted model, predict on well-shaped measurements with a method
\* other than None and 'unregularized' fails with the not-implemented signal,
\* solves nothing and leaves the instance as it was.
C18_UnknownMethod ==
    Fitted =>
        \A x \in Measurements \cup {NoX}, prior \in PriorArgs, noise_given \in BOOLEAN :
            LET o == predict(Self, x, "cubic", prior, noise_given)
            IN /\ o.self = Self /\ o.path = "" /\ o.trace = <<>>
               /\ o.result = (IF WellShaped(x) THEN "NotImplementedError" ELSE "ValueError")

\* A fitted model whose last predict was refused for its method.
C18_Witness ==
    /\ Fitted
    /\ last.op = "predict" /\ last.result = "NotImplementedError"

\* The fitted-state bundle is of one piece: singular values and ranking fit
\* the basis matrix held.
Consistent ==
    /\ singular_values.len = basis_matrix_.cols
    /\ Len(ranked_sensors_) = basis_matrix_.rows

\* A prior the resolution accepts: 'decreasing', or a 1-D array with one
\* entry per column of the basis matrix.
AcceptedPrior(prior) ==
    \/ prior = Decreasing
    \/ prior.kind = "ndarray" /\ prior.ndim = 1 /\ prior.len = basis_matrix_.cols

\* The four methods that resolve a prior, each on arguments that are
\* otherwise in order.
PriorOutcomes(prior, noise_given) ==
    {predict(Self, x, "None", prior, noise_given) : x \in {m \in Measurements : WellShaped(m)}}
    \cup {std(Self, prior, noise_given)}
    \cup (IF optimizer = "TPGR"
          THEN {one_pt_energy_landscape(Self, prior, noise_given),
                two_pt_energy_landscape(Self, <<0>>, prior, noise_given)}
          ELSE {})

\* C19: regularized predict, std and the two energy landscapes resolve the
\* prior alike: 'decreasing' and a 1-D array of length n_basis_modes (the
\* columns of the basis matrix held) are accepted and the computation goes
\* on; every other prior fails with a value error, nothing solved and no
\* state changed.
C19_PriorResolution ==
    (Fitted /\ Consistent) =>
        \A prior \in PriorArgs, noise_given \in BOOLEAN :
            \A o \in PriorOutcomes(prior, noise_given) :
                /\ o.self = Self
                /\ IF AcceptedPrior(prior)
                   THEN o.result = "ok" /\ o.path \in {"regularized", "std", "one_pt", "two_pt"}
                   ELSE o.result = "ValueError" /\ o.path = ""

\* After an update_n_basis_modes truncated the basis, std refused a prior.
C19_Witness ==
    /\ Fitted /\ Consistent
    /\ n_basis_modes # None /\ n_basis_modes < basis.n_basis_modes
    /\ last.op = "std" /\ last.result = "ValueError"

\* C20: the prior of std is optional: on a fitted model std called without a
\* prior does what std('decreasing') does and returns a value.
C20_StdPriorOptional ==
    (Fitted /\ Consistent) =>
        \A noise_given \in BOOLEAN :
            /\ std(Self, Missing, noise_given).result = "ok"
            /\ std(Self, Missing, noise_given) = std(Self, Decreasing, noise_given)

\* C21: on a fitted model score(x) fails with a value error, nothing
\* reconstructed, whenever x has another number of features than there are
\* ranked sensors; otherwise it scores the unregularized prediction made from
\* the n_sensors selected columns of x.
C21_ScoreNeedsAllFeatures ==
    Fitted =>
        \A x \in Measurements :
            LET o == score(Self, x)
                sel == get_selected_sensors(Self).ret
                pred == predict(Self, [x EXCEPT !.features = n_sensors], "unregularized",
                                Decreasing, FALSE)
            IN /\ o.self = Self
               /\ IF x.features # Len(ranked_sensors_)
                  THEN o.result = "ValueError" /\ o.path = ""
                  ELSE /\ Len(sel) = n_sensors
                       /\ Consistent => o.result = "ok"
                       /\ o.result = "ok" =>
                            /\ o = pred
                            /\ o.ret = sel
                            /\ o.path \in {"square", "rectangular"}

\* A score computed by the square solve from fewer sensors than are ranked.
C21_Witness ==
    /\ Fitted
    /\ last.op = "score" /\ last.result = "ok" /\ last.path = "square"
    /\ n_sensors < Len(ranked_sensors_)

\* Test data with one column per ranked sensor.
FullData(x) == validate_input(x, Len(ranked_sensors_))

UpTo(n) == [i \in 1..n |-> i]

\* C22: reconstruction_error called without a sensor_range evaluates the
\* sensor counts 1, 2, ..., min(n_sensors, n_basis_modes), n_basis_modes
\* being the number of columns of the basis matrix.
C22_DefaultSweepRange ==
    (Fitted /\ Consistent) =>
        \A x \in Measurements :
            FullData(x) =>
                /\ SweepRange(Self, <<>>) = UpTo(Min(n_sensors, basis_matrix_.cols))
                /\ reconstruction_error(Self, x, <<>>).result = "ok"
                /\ Len(reconstruction_error(Self, x, <<>>).ret)
                      = Min(n_sensors, basis_matrix_.cols)

\* C23: reconstruction_error returns one score per entry of sensor_range in
\* the order given, entry k computed from the first sensor_range[k] ranked
\* sensors, by the square solve when sensor_range[k] equals the number of
\* basis modes and by least squares otherwise, whatever n_sensors is.
C23_SweepPerEntry ==
    (Fitted /\ Consistent) =>
        \A x \in Measurements, sensor_range \in RangeArgs \ {<<>>} :
            FullData(x) =>
                LET o == reconstruction_error(Self, x, sensor_range)
                IN /\ o.result = "ok"
                   /\ Len(o.ret) = Len(sensor_range)
                   /\ \A k \in 1..Len(sensor_range) :
                        /\ o.ret[k] = (IF sensor_range[k] = basis_matrix_.cols
                                       THEN "square" ELSE "rectangular")
                        /\ SweepEntry(Self, sensor_range[k]).ret
                              = Prefix(ranked_sensors_, sensor_range[k])
                   /\ \A n \in 1..Len(ranked_sensors_) :
                        reconstruction_error([Self EXCEPT !.n_sensors = n], x, sensor_range).ret
                            = o.ret

\* A sweep over a given sensor_range on a model whose n_sensors equals its
\* number of basis modes while more sensors are ranked.
C23_Witness ==
    /\ Fitted /\ Consistent
    /\ last.op = "reconstruction_error" /\ last.result = "ok"
    /\ n_sensors = basis_matrix_.cols /\ n_sensors < Len(ranked_sensors_)

\* C29: reconstruction_error emits its performance diagnostic exactly when
\* some entry of sensor_range exceeds the number of rows of the basis
\* matrix, whatever the order of the entries.
C29_DiagnosticOnExcess ==
    (Fitted /\ Consistent) =>
        \A x \in Measurements, sensor_range \in RangeArgs \ {<<>>} :
            FullData(x) =>
                LET o == reconstruction_error(Self, x, sensor_range)
                IN o.result = "ok" =>
                    (("more_sensors_than_basis_dimension" \in o.warns)
                        <=> (\E k \in 1..Len(sensor_range) :
                                sensor_range[k] > basis_matrix_.rows))

ReadOnlyMethods ==
    {"predict", "score", "reconstruction_error", "std", "one_pt_energy_landscape",
     "two_pt_energy_landscape", "get_selected_sensors", "get_all_sensors"}

\* C24: predict, score, reconstruction_error, std, the energy landscapes and
\* the two getters, succeeding or failing, leave n_sensors, the mode counts,
\* the ranking, the basis matrix and the singular values as they were.
C24_ReadsChangeNothing ==
    [][last'.op \in ReadOnlyMethods =>
        UNCHANGED <<optimizer, basis, n_sensors, n_basis_modes, attrs, basis_matrix_,
                    singular_values, ranked_sensors_>>]_vars

\* A fitted model selecting fewer sensors than are ranked, after a successful
\* get_selected_sensors.
C24_Witness ==
    /\ Fitted /\ n_sensors < Len(ranked_sensors_)
    /\ last.op = "get_selected_sensors" /\ last.result = "ok"

\* t holds the entries of s, each as often, in some order.
IsRearrangement(s, t) ==
    /\ Len(s) = Len(t)
    /\ \A i \in 1..Len(s) : Count(s, s[i]) = Count(t, s[i])

\* C26: for every seed the ranking stored by fit keeps the strategy's first m
\* entries unchanged and in order, m being the number of columns of the basis
\* matrix, and its entries from position m on are a rearrangement of the
\* strategy's entries from position m on.
C26_ShuffleStaysInTail ==
    \A x \in Data, prefit_basis \in BOOLEAN, seed \in SeedArgs, choice \in Choices,
       entropy \in Entropy :
        LET o == fit(Self, x, prefit_basis, seed, choice, entropy)
        IN o.result = "ok" =>
            LET m == o.self.basis_matrix_.cols
                stored == o.self.ranked_sensors_
                given == get_sensors(o.self.basis_matrix_.rows, choice)
            IN /\ Len(stored) = Len(given)
               /\ \A i \in 1..Min(m, Len(given)) : stored[i] = given[i]
               /\ IsRearrangement(SubSeq(stored, m + 1, Len(stored)),
                                  SubSeq(given, m + 1, Len(given)))

\* A fit whose stored ranking is the strategy's with two or more tail entries,
\* in another order than the strategy gave them.
C26_Witness ==
    /\ last.op = "fit" /\ last.result = "ok"
    /\ Len(ranked_sensors_) >= basis_matrix_.cols + 2
    /\ \E choice \in Choices, seed \in SeedArgs, entropy \in Entropy :
          /\ ranked_sensors_ = shuffle_tail(get_sensors(basis_matrix_.rows, choice),
                                            basis_matrix_.cols, seed, entropy)
          /\ ranked_sensors_ # get_sensors(basis_matrix_.rows, choice)

\* The ranking strategy was invoked by the last call.
Ranked(call) == Count(call.trace, "optimizer.fit") > 0

\* C27: the ranking strategy is never invoked while the basis is unfit (fit
\* with prefit_basis on an unfit basis fails with the not-fitted signal
\* before invoking it), and once a fit has succeeded no fit,
\* set_number_of_sensors or update_n_basis_modes call, successful or failing,
\* returns the model to the unfitted state.
C27_Lifecycle ==
    /\ [](/\ Ranked(last) => basis.fitted
          /\ Fitted => basis.fitted /\ "basis_matrix_" \in attrs
          /\ ~basis.fitted =>
                \A x \in XArgs, seed \in SeedArgs :
                    /\ fit(Self, x, TRUE, seed, 0, 0).result = "NotFittedError"
                    /\ fit(Self, x, TRUE, seed, 0, 0).trace = <<>>
                    /\ fit(Self, x, TRUE, seed, 0, 0).self = Self)
    /\ [][/\ Fitted => Fitted'
          /\ Ranked(last') => (basis.fitted \/ last'.trace[1] = "basis.fit")]_vars

\* A fitted model still fitted after a fit that failed on its data.
C27_Witness ==
    /\ Fitted
    /\ last.op = "fit" /\ last.result = "OperandError"

\* C28: on a fitted model a successful update_n_basis_modes(k) leaves
\* n_sensors unchanged, also for k < n_sensors, and a successful
\* set_number_of_sensors leaves the model's and the basis's mode counts
\* unchanged.
C28_CountsIndependent ==
    Fitted =>
        /\ \A k \in ModeArgs, x \in XArgs :
              LET o == update_n_basis_modes(Self, k, x, 0, 0)
              IN o.result = "ok" =>
                    /\ o.self.n_sensors = n_sensors
                    /\ o.self.n_basis_modes = k.val
        /\ \A k \in CountArgs :
              LET o == set_number_of_sensors(Self, k)
              IN o.result = "ok" =>
                    /\ o.self.n_sensors = k.val
                    /\ o.self.n_basis_modes = n_basis_modes
                    /\ o.self.basis.n_basis_modes = basis.n_basis_modes

\* A successful update_n_basis_modes to fewer modes than sensors are selected.
C28_Witness ==
    /\ Fitted
    /\ last.op = "update_n_basis_modes" /\ last.result = "ok"
    /\ n_basis_modes < n_sensors

\* C30: when update_n_basis_modes raises, for whatever reason, the model's
\* and the basis's n_basis_modes keep the values they had before the call.
C30_FailedUpdateKeepsModes ==
    [][(last'.op = "update_n_basis_modes" /\ last'.result # "ok") =>
        /\ n_basis_modes' = n_basis_modes
        /\ basis'.n_basis_modes = basis.n_basis_modes]_vars

\* The model as it would be had the strategy ranked by another choice.
RankedBy(choice) ==
    [Self EXCEPT !.ranked_sensors_ =
        shuffle_tail(get_sensors(basis_matrix_.rows, choice), basis_matrix_.cols, 0, 0)]

\* C25: when n_sensors equals the number of basis modes, unregularized
\* predict on the sensor entries of a state x = BasisMatrix . c returns x,
\* for every ranking and every basis matrix whose rows at the selected
\* sensors are non-singular.
C25_SquareExactInSpan ==
    (Fitted /\ Consistent /\ n_sensors = basis_matrix_.cols) =>
        \A self \in {Self} \cup {RankedBy(choice) : choice \in Choices} :
            LET sensors == get_selected_sensors(self).ret
                shape == [samples |-> 1, features |-> n_sensors]
            IN /\ predict(self, shape, "unregularized", Decreasing, FALSE).path = "square"
               /\ \A B \in BasisMatrices(basis_matrix_.rows, basis_matrix_.cols),
                     c \in Coefficients(basis_matrix_.cols) :
                     Det(RowsAt(B, sensors)) # 0 =>
                        _square_predict_values(B, sensors, EntriesAt(MatVec(B, c), sensors))
                            = MatVec(B, c)

\* A square solve by predict with two or more modes and more features than
\* sensors, for which some basis matrix is non-singular at the sensors.
C25_Witness ==
    /\ Fitted /\ Consistent
    /\ last.op = "predict" /\ last.result = "ok" /\ last.path = "square"
    /\ n_sensors = basis_matrix_.cols /\ n_sensors >= 2 /\ n_sensors < basis_matrix_.rows
    /\ \E B \in BasisMatrices(basis_matrix_.rows, basis_matrix_.cols) :
          Det(RowsAt(B, get_selected_sensors(Self).ret)) # 0

====
